---- MODULE Spec2Model ----
(***************************************************************************)
(* Concert ticket booking: the reservation engine of                       *)
(* backend/src/services/bookingService.ts over the PostgreSQL tables       *)
(* created by db/migrate.ts (quoted in REQUIREMENTS_CHECKLIST.md).         *)
(*                                                                         *)
(* The committed database is the pair (available, bookings).  Every call   *)
(* of createBooking runs on its own connection p; every awaited statement  *)
(* is one action, so calls interleave between statements.  The statement   *)
(* SET TRANSACTION ISOLATION LEVEL SERIALIZABLE is issued before BEGIN, so *)
(* it ends with its own implicit transaction and the booking transaction   *)
(* runs at the default level, READ COMMITTED: a locking read takes the     *)
(* row lock and then re-checks the newest committed version of the row.    *)
(* The inventory is scaled down from 100 / 200 / 1000 tickets.             *)
(***************************************************************************)
EXTENDS Integers, Sequences, FiniteSets, TLC

\* ---- bounds ----
\* tickets per tier (migrate loads 100 / 200 / 1000) and the largest quantity asked
\* for (the route accepts up to 100)
VipCount == 1
FrontRowCount == 1
GaCount == 3
MaxQuantity == 2
\* the highest value the sequence of tickets.id takes: runs of migrate that failed
\* within their first ten INSERTs can be followed by another run
MaxSerial == 1310

\* the connections that run createBooking, one client each
Procs == {1, 2}

\* the values `BK-${Date.now()}-${Math.random()...}` takes
References == {1, 2}

\* ---- program constants ----
VipPrice == 100
FrontRowPrice == 50
GaPrice == 10

Tiers == {"VIP", "Front Row", "GA"}

\* App.tsx line 18: every client has its own mock user id
UserOf(p) == "user-" \o ToString(p)
NumTickets == VipCount + FrontRowCount + GaCount
TicketIds == 1..NumTickets

\* migrate inserts the VIP tickets first, then Front Row, then GA; ids are SERIAL
TierOf(t) ==
  IF t <= VipCount THEN "VIP"
  ELSE IF t <= VipCount + FrontRowCount THEN "Front Row"
  ELSE "GA"

PriceOf(tier) ==
  IF tier = "VIP" THEN VipPrice
  ELSE IF tier = "Front Row" THEN FrontRowPrice
  ELSE GaPrice

\* mutant: ORDER BY id DESC
Max(S) == CHOOSE x \in S : \A y \in S : x >= y

Min(S) == CHOOSE x \in S : \A y \in S : x <= y
Range(s) == {s[i] : i \in 1..Len(s)}

NoRequest == [tier |-> "none", quantity |-> 0, userId |-> "none"]
NoError == [kind |-> "none", requested |-> 0, available |-> 0]
NoReference == 0
NoResponse == 0
\* a JSON body: the number `quantity` is quantity + fraction / 10
NoBody == [tier |-> "none", quantity |-> 0, fraction |-> 0, userId |-> "none"]

NoRead == [call |-> "none", availability |-> <<>>, catalog |-> <<>>]

\* default_transaction_isolation of PostgreSQL
\* no run of migrate so far: nothing in the tickets table, the SERIAL at its start
NoMigration ==
  [pc |-> "idle", inserted |-> 0, serial |-> 1, outcome |-> "none", table |-> <<>>]

DefaultIsolation == "read committed"

VARIABLES
  available,         \* tickets table, committed: id of each row |-> its `available`
  bookings,          \* bookings table, committed rows
  pc,                \* position of each createBooking call
  request,           \* the BookingRequest of the call
  txState,           \* transaction of the connection: "none" | "open" | "aborted"
  rowLocks,          \* row locks (FOR UPDATE) held by the transaction
  cursor,            \* last ticket row the locking scan examined
  tickets,           \* local `tickets`: the rows getAvailableTickets returned
  bookingReference,  \* local `bookingReference`
  txBookings,        \* booking rows written by the open transaction
  txUnavailable,     \* tickets the open transaction set available = false
  localBookings,     \* local `bookings` array (rows pushed at line 113)
  paymentCalls,      \* simulatePayment invocations of the call
  result,            \* the resolved value of the call
  error,             \* the Error the call threw
  nextRef,           \* the next fresh value of References
  isolation,         \* isolation level of the connection's transaction
  response,          \* HTTP status of the last response to the client
  migrateLog,        \* what the last run of migrate logged
  body,              \* req.body of the POST /api/bookings being handled
  lastRead,          \* what the last call of a read entry point returned
  migration,         \* migrate statement by statement: its position, the tickets table
  released           \* per call: how often client.release() was called

vars == <<available, bookings, pc, request, txState, rowLocks, cursor, tickets,
          bookingReference, txBookings, txUnavailable, localBookings,
          paymentCalls, result, error, nextRef, isolation, response, migrateLog, body, lastRead, migration, released>>

\* ---- the state after migrate on an empty database ----
Init ==
  /\ available = [t \in TicketIds |-> TRUE]
  /\ bookings = {}
  /\ pc = [p \in Procs |-> "idle"]
  /\ request = [p \in Procs |-> NoRequest]
  /\ txState = [p \in Procs |-> "none"]
  /\ rowLocks = [p \in Procs |-> {}]
  /\ cursor = [p \in Procs |-> 0]
  /\ tickets = [p \in Procs |-> <<>>]
  /\ bookingReference = [p \in Procs |-> NoReference]
  /\ txBookings = [p \in Procs |-> {}]
  /\ txUnavailable = [p \in Procs |-> {}]
  /\ localBookings = [p \in Procs |-> <<>>]
  /\ paymentCalls = [p \in Procs |-> 0]
  /\ result = [p \in Procs |-> <<>>]
  /\ error = [p \in Procs |-> NoError]
  /\ nextRef = 1
  /\ isolation = [p \in Procs |-> "none"]
  /\ response = [p \in Procs |-> NoResponse]
  /\ migrateLog = "inserted"
  /\ body = [p \in Procs |-> NoBody]
  /\ lastRead = NoRead
  /\ migration = NoMigration
  /\ released = [p \in Procs |-> 0]

\* calls that have not yet generated their bookingReference
BeforeReference == {"setIsolation", "begin", "select"}

\* ---- createBooking, line 72: the call starts and takes a pooled connection ----
createBooking(p, req) ==
  /\ pc[p] = "idle"
  /\ nextRef + Cardinality({q \in Procs : pc[q] \in BeforeReference}) \in References
  /\ pc' = [pc EXCEPT ![p] = "setIsolation"]
  /\ request' = [request EXCEPT ![p] = req]
  /\ UNCHANGED <<available, bookings, txState, rowLocks, cursor, tickets,
                 bookingReference, txBookings, txUnavailable, localBookings,
                 paymentCalls, result, error, nextRef,
                 isolation, response, migrateLog, body, lastRead, migration, released>>

\* SET TRANSACTION sets the level of the transaction it runs in; outside a
\* transaction block that is its own implicit transaction, which ends with the
\* statement (PostgreSQL warns and goes on)
\* line 77: SET TRANSACTION ISOLATION LEVEL SERIALIZABLE, issued before BEGIN
SetIsolation(p) ==
  /\ pc[p] = "setIsolation"
  /\ isolation' = IF txState[p] = "open"
                    THEN [isolation EXCEPT ![p] = "serializable"]
                    ELSE isolation
  /\ pc' = [pc EXCEPT ![p] = "begin"]
  /\ UNCHANGED <<available, bookings, request, txState, rowLocks, cursor, tickets,
                 bookingReference, txBookings, txUnavailable, localBookings,
                 paymentCalls, result, error, nextRef,
                 response, migrateLog, body, lastRead, migration, released>>

\* line 78: BEGIN
Begin(p) ==
  /\ pc[p] = "begin"
  /\ txState' = [txState EXCEPT ![p] = "open"]
  /\ isolation' = [isolation EXCEPT ![p] = DefaultIsolation]
  /\ cursor' = [cursor EXCEPT ![p] = 0]
  /\ pc' = [pc EXCEPT ![p] = "select"]
  /\ UNCHANGED <<available, bookings, request, rowLocks, tickets,
                 bookingReference, txBookings, txUnavailable, localBookings,
                 paymentCalls, result, error, nextRef,
                 response, migrateLog, body, lastRead, migration, released>>

\* ---- getAvailableTickets: WHERE tier = $1 AND available = true ORDER BY id ----
\* the rows of the tier, after the cursor, whose newest committed version is available
\* mutant: the query without `tier = $1`
CandidatesOfAnyTier(p) == {t \in DOMAIN available : t > cursor[p] /\ available[t]}

Candidates(p) ==
  {t \in DOMAIN available :
     t > cursor[p] /\ TierOf(t) = request[p].tier /\ available[t]}

\* mutant: a plain SELECT, which takes and sees no row lock
NeverLocked(p, t) == FALSE

\* FOR UPDATE: the row is locked by another transaction
LockedByOther(p, t) == \E q \in Procs \ {p} : t \in rowLocks[q]

\* LIMIT $2: the scan goes on while fewer than `quantity` rows were returned
ScanOpen(p) ==
  /\ pc[p] = "select"
  /\ Len(tickets[p]) < request[p].quantity
  /\ Candidates(p) # {}

\* the next row is free: lock it and return it
SelectLockRow(p) ==
  /\ ScanOpen(p)
  /\ LET t == Min(Candidates(p)) IN
       /\ ~LockedByOther(p, t)
       /\ rowLocks' = [rowLocks EXCEPT ![p] = @ \cup {t}]
       /\ tickets' = [tickets EXCEPT ![p] = Append(@, t)]
       /\ cursor' = [cursor EXCEPT ![p] = t]
  /\ UNCHANGED <<available, bookings, pc, request, txState,
                 bookingReference, txBookings, txUnavailable, localBookings,
                 paymentCalls, result, error, nextRef,
                 isolation, response, migrateLog, body, lastRead, migration, released>>

\* SKIP LOCKED: the next row is locked by another transaction, pass over it
SelectSkipLocked(p) ==
  /\ ScanOpen(p)
  /\ LET t == Min(Candidates(p)) IN
       /\ LockedByOther(p, t)
       /\ cursor' = [cursor EXCEPT ![p] = t]
  /\ UNCHANGED <<available, bookings, pc, request, txState, rowLocks, tickets,
                 bookingReference, txBookings, txUnavailable, localBookings,
                 paymentCalls, result, error, nextRef,
                 isolation, response, migrateLog, body, lastRead, migration, released>>

\* mutant: only an empty selection is rejected
NoTicketAtAll(p) == Len(tickets[p]) = 0

\* mutant: a selection of exactly `quantity` rows is rejected too
NotMoreThanAsked(p) == Len(tickets[p]) <= request[p].quantity

\* line 87
InsufficientTickets(p) == Len(tickets[p]) < request[p].quantity

\* mutant: the error reports the requested quantity as the available count
FoundAsRequested(p) == request[p].quantity

\* line 89: `Available: ${tickets.length}`
AvailableFound(p) == Len(tickets[p])

\* lines 85-94: the query returns; the quantity check; the reference is generated.
\* ref is the value of `BK-${Date.now()}-${Math.random()...}`.
SelectReturn(p, ref) ==
  /\ pc[p] = "select"
  /\ ~ScanOpen(p)
  /\ IF InsufficientTickets(p)
       THEN /\ pc' = [pc EXCEPT ![p] = "rollbackInsufficient"]
            /\ error' = [error EXCEPT ![p] =
                 [kind |-> "Insufficient tickets",
                  requested |-> request[p].quantity,
                  available |-> AvailableFound(p)]]
            /\ UNCHANGED <<bookingReference, nextRef>>
       ELSE /\ pc' = [pc EXCEPT ![p] = "insert"]
            /\ bookingReference' = [bookingReference EXCEPT ![p] = ref]
            /\ nextRef' = IF ref = nextRef THEN nextRef + 1 ELSE nextRef
            /\ UNCHANGED error
  /\ cursor' = [cursor EXCEPT ![p] = 0]
  /\ UNCHANGED <<available, bookings, request, txState, rowLocks, tickets,
                 txBookings, txUnavailable, localBookings, paymentCalls, result,
                 isolation, response, migrateLog, body, lastRead, migration, released>>

\* ---- the insert loop, lines 98-122 ----
\* the ticket of the current iteration
CurrentTicket(p) == tickets[p][Len(localBookings[p]) + 1]

\* mutant: each row carries the quantity and the total price of the whole request
RequestBooking(p, t) ==
  [ticket_id |-> t,
   user_id |-> request[p].userId,
   quantity |-> request[p].quantity,
   total_price |-> PriceOf(TierOf(t)) * request[p].quantity,
   booking_reference |-> bookingReference[p],
   payment_status |-> "pending"]

\* the row of INSERT INTO bookings ... VALUES ($1, $2, $3, $4, $5, 'pending')
NewBooking(p, t) ==
  [ticket_id |-> t,
   user_id |-> request[p].userId,
   quantity |-> 1,
   total_price |-> PriceOf(TierOf(t)),
   booking_reference |-> bookingReference[p],
   payment_status |-> "pending"]

\* the rows transaction p sees: committed rows and its own
VisibleBookings(p) == bookings \cup txBookings[p]

\* bookings.ticket_id ... UNIQUE
TicketIdTaken(p, row) == \E b \in VisibleBookings(p) : b.ticket_id = row.ticket_id

\* bookings.booking_reference VARCHAR(255) UNIQUE
BookingReferenceTaken(p, row) ==
  \E b \in VisibleBookings(p) : b.booking_reference = row.booking_reference

\* error code 23505
UniqueViolation(p, row) == TicketIdTaken(p, row) \/ BookingReferenceTaken(p, row)

\* mutant: the insert waits whatever the other transactions hold
AlwaysWaits(p, row) == TRUE

\* a unique index makes the insert wait for an open transaction that wrote the same key
InsertWaits(p, row) ==
  \E q \in Procs \ {p} : \E b \in txBookings[q] :
     \/ b.ticket_id = row.ticket_id
     \/ b.booking_reference = row.booking_reference

\* lines 100-105 and the catch of lines 114-121
InsertBooking(p) ==
  /\ pc[p] = "insert"
  /\ LET row == NewBooking(p, CurrentTicket(p)) IN
       /\ ~InsertWaits(p, row)
       /\ IF UniqueViolation(p, row)
            THEN /\ txState' = [txState EXCEPT ![p] = "aborted"]
                 /\ pc' = [pc EXCEPT ![p] = "rollbackConflict"]
                 /\ error' = [error EXCEPT ![p] =
                      [kind |-> "already booked", requested |-> 0, available |-> 0]]
                 /\ UNCHANGED txBookings
            ELSE /\ txBookings' = [txBookings EXCEPT ![p] = @ \cup {row}]
                 /\ pc' = [pc EXCEPT ![p] = "update"]
                 /\ UNCHANGED <<txState, error>>
  /\ UNCHANGED <<available, bookings, request, rowLocks, cursor, tickets,
                 bookingReference, txUnavailable, localBookings,
                 paymentCalls, result, nextRef,
                 isolation, response, migrateLog, body, lastRead, migration, released>>

\* mutant: the payment step runs inside the loop, after the first ticket
LoopEndsAtOnce(p) == FALSE

\* line 98: `for (const ticket of tickets)` has a further ticket after this one
MoreTickets(p) == Len(localBookings[p]) + 1 < Len(tickets[p])

\* lines 108-113, and after the last ticket line 126: simulatePayment()
UpdateTicket(p, paymentSuccess) ==
  /\ pc[p] = "update"
  /\ LET t == CurrentTicket(p) IN
       /\ txUnavailable' = [txUnavailable EXCEPT ![p] = @ \cup {t}]
       /\ localBookings' = [localBookings EXCEPT ![p] = Append(@, NewBooking(p, t))]
  /\ IF MoreTickets(p)
       THEN /\ pc' = [pc EXCEPT ![p] = "insert"]
            /\ UNCHANGED <<paymentCalls, error>>
       ELSE /\ paymentCalls' = [paymentCalls EXCEPT ![p] = @ + 1]
            /\ IF paymentSuccess
                 THEN /\ pc' = [pc EXCEPT ![p] = "updateStatus"]
                      /\ UNCHANGED error
                 ELSE /\ pc' = [pc EXCEPT ![p] = "rollbackPayment"]
                      /\ error' = [error EXCEPT ![p] =
                           [kind |-> "Payment processing failed",
                            requested |-> 0, available |-> 0]]
  /\ UNCHANGED <<available, bookings, request, txState, rowLocks, cursor, tickets,
                 bookingReference, txBookings, result, nextRef,
                 isolation, response, migrateLog, body, lastRead, migration, released>>

\* mutant: the status update changes no row
StatusKept(rows, ref, status) == rows

\* UPDATE bookings SET payment_status = 'success' WHERE booking_reference = $1
WithStatus(rows, ref, status) ==
  {IF b.booking_reference = ref THEN [b EXCEPT !.payment_status = status] ELSE b
     : b \in rows}

\* lines 130-135.  A committed row cannot carry the reference: the inserts of this
\* transaction passed the unique index on booking_reference.
UpdateStatus(p) ==
  /\ pc[p] = "updateStatus"
  /\ txBookings' = [txBookings EXCEPT ![p] = WithStatus(@, bookingReference[p], "success")]
  /\ pc' = [pc EXCEPT ![p] = "commit"]
  /\ UNCHANGED <<available, bookings, request, txState, rowLocks, cursor, tickets,
                 bookingReference, txUnavailable, localBookings,
                 paymentCalls, result, error, nextRef,
                 isolation, response, migrateLog, body, lastRead, migration, released>>

\* mutant: the success branch ends the transaction without making its writes durable
CommitLost(p) == [bookings |-> bookings, available |-> available]

\* mutant: the claims are held by the session and outlive the transaction
LocksOutlive(p) == rowLocks[p]

\* the row locks of a transaction are released when it ends, however it ends
LocksAtEnd(p) == {}

\* mutant: the ticket rows of the batch are deleted where the code updates them
CommitDeletes(p) ==
  [bookings |-> bookings \cup txBookings[p],
   available |-> [t \in DOMAIN available \ txUnavailable[p] |-> available[t]]]

\* COMMIT: the committed tables with the writes of the transaction
CommitWrites(p) ==
  [bookings |-> bookings \cup txBookings[p],
   available |-> [t \in DOMAIN available |->
                    IF t \in txUnavailable[p] THEN FALSE ELSE available[t]]]

\* line 138: bookings.map(b => ({ ...b, payment_status: 'success' }))
Returned(p) ==
  [i \in 1..Len(localBookings[p]) |-> [localBookings[p][i] EXCEPT !.payment_status = "success"]]

\* lines 137-138
Commit(p) ==
  /\ pc[p] = "commit"
  /\ bookings' = CommitWrites(p).bookings
  /\ available' = CommitWrites(p).available
  /\ txBookings' = [txBookings EXCEPT ![p] = {}]
  /\ txUnavailable' = [txUnavailable EXCEPT ![p] = {}]
  /\ rowLocks' = [rowLocks EXCEPT ![p] = LocksAtEnd(p)]
  /\ txState' = [txState EXCEPT ![p] = "none"]
  /\ isolation' = [isolation EXCEPT ![p] = "none"]
  /\ result' = [result EXCEPT ![p] = Returned(p)]
  /\ pc' = [pc EXCEPT ![p] = "release"]
  /\ UNCHANGED <<request, cursor, tickets, bookingReference, localBookings,
                 paymentCalls, error, nextRef,
                 response, migrateLog, body, lastRead, migration, released>>

\* mutant: the statements ran outside a transaction, so ROLLBACK undoes nothing
RollbackKeeps(p) ==
  [bookings |-> bookings \cup txBookings[p],
   available |-> [t \in DOMAIN available |->
                    IF t \in txUnavailable[p] THEN FALSE ELSE available[t]]]

\* ROLLBACK: the committed tables without the writes of the transaction
RollbackWrites(p) == [bookings |-> bookings, available |-> available]

\* lines 88, 117, 142: ROLLBACK, then the throw
Rollback(p) ==
  /\ pc[p] \in {"rollbackInsufficient", "rollbackConflict", "rollbackPayment"}
  /\ bookings' = RollbackWrites(p).bookings
  /\ available' = RollbackWrites(p).available
  /\ txBookings' = [txBookings EXCEPT ![p] = {}]
  /\ txUnavailable' = [txUnavailable EXCEPT ![p] = {}]
  /\ rowLocks' = [rowLocks EXCEPT ![p] = LocksAtEnd(p)]
  /\ txState' = [txState EXCEPT ![p] = "none"]
  /\ isolation' = [isolation EXCEPT ![p] = "none"]
  /\ pc' = [pc EXCEPT ![p] = "rollbackCatch"]
  /\ UNCHANGED <<request, cursor, tickets, bookingReference, localBookings,
                 paymentCalls, result, error, nextRef,
                 response, migrateLog, body, lastRead, migration, released>>

\* mutant: the outer catch rethrows without issuing ROLLBACK
CatchWithoutRollback(p) ==
  /\ pc[p] = "rollbackCatch"
  /\ pc' = [pc EXCEPT ![p] = "release"]
  /\ UNCHANGED <<available, bookings, request, txState, rowLocks, cursor, tickets,
                 bookingReference, txBookings, txUnavailable, localBookings,
                 paymentCalls, result, error, nextRef,
                 isolation, response, migrateLog, body, lastRead, migration, released>>

\* mutant: the catch releases the connection too, before the finally does
CatchReleases(p) ==
  /\ pc[p] = "rollbackCatch"
  /\ bookings' = bookings
  /\ available' = available
  /\ txBookings' = [txBookings EXCEPT ![p] = {}]
  /\ txUnavailable' = [txUnavailable EXCEPT ![p] = {}]
  /\ rowLocks' = [rowLocks EXCEPT ![p] = {}]
  /\ txState' = [txState EXCEPT ![p] = "none"]
  /\ isolation' = [isolation EXCEPT ![p] = "none"]
  /\ pc' = [pc EXCEPT ![p] = "release"]
  /\ released' = [released EXCEPT ![p] = @ + 1]
  /\ UNCHANGED <<request, cursor, tickets, bookingReference, localBookings,
                 paymentCalls, result, error, nextRef,
                 response, migrateLog, body, lastRead, migration>>

\* lines 145-152: the outer catch issues ROLLBACK, then rethrows.  After the typed
\* failures no transaction is open and the ROLLBACK changes nothing; after a
\* statement that failed inside the transaction it ends the aborted transaction.
RollbackCatch(p) ==
  /\ pc[p] = "rollbackCatch"
  /\ bookings' = RollbackWrites(p).bookings
  /\ available' = RollbackWrites(p).available
  /\ txBookings' = [txBookings EXCEPT ![p] = {}]
  /\ txUnavailable' = [txUnavailable EXCEPT ![p] = {}]
  /\ rowLocks' = [rowLocks EXCEPT ![p] = LocksAtEnd(p)]
  /\ txState' = [txState EXCEPT ![p] = "none"]
  /\ isolation' = [isolation EXCEPT ![p] = "none"]
  /\ pc' = [pc EXCEPT ![p] = "release"]
  /\ UNCHANGED <<request, cursor, tickets, bookingReference, localBookings,
                 paymentCalls, result, error, nextRef,
                 response, migrateLog, body, lastRead, migration, released>>

\* lines 153-155: client.release(); the function exits and the promise settles
Release(p) ==
  /\ pc[p] = "release"
  /\ pc' = [pc EXCEPT ![p] = "done"]
  /\ tickets' = [tickets EXCEPT ![p] = <<>>]
  /\ localBookings' = [localBookings EXCEPT ![p] = <<>>]
  /\ released' = [released EXCEPT ![p] = @ + 1]
  /\ UNCHANGED <<available, bookings, request, txState, rowLocks, cursor, bookingReference,
                 txBookings, txUnavailable, paymentCalls, result, error, nextRef,
                 isolation, response, migrateLog, body, lastRead, migration>>

\* the caller has the outcome; the connection serves the next call
Finish(p) ==
  /\ pc[p] = "done"
  /\ pc' = [pc EXCEPT ![p] = "idle"]
  /\ request' = [request EXCEPT ![p] = NoRequest]
  /\ paymentCalls' = [paymentCalls EXCEPT ![p] = 0]
  /\ result' = [result EXCEPT ![p] = <<>>]
  /\ error' = [error EXCEPT ![p] = NoError]
  /\ bookingReference' = [bookingReference EXCEPT ![p] = NoReference]
  /\ released' = [released EXCEPT ![p] = 0]
  /\ UNCHANGED <<available, bookings, txState, rowLocks, cursor, tickets,
                 txBookings, txUnavailable, localBookings, nextRef,
                 isolation, response, migrateLog, body, lastRead, migration>>

\* ---- getTicketAvailability, lines 170-206 ----
\* FROM tickets GROUP BY tier: the rows of a tier
TicketsOfTier(tier) == {t \in DOMAIN available : TierOf(t) = tier}

AvailableOfTier(tier) == {t \in TicketsOfTier(tier) : available[t]}

getTicketAvailability ==
  [tier \in Tiers |->
     [available |-> Cardinality(AvailableOfTier(tier)),
      total |-> Cardinality(TicketsOfTier(tier)),
      price |-> PriceOf(tier)]]

\* `availability[tier] || { available: 0, total: 0, price }` of lines 198-202 is the
\* entry above for a tier without rows

\* ---- getAllAvailableTickets, lines 211-226 ----
\* ORDER BY tier: the tier names in ascending order
TierOrder == <<"Front Row", "GA", "VIP">>

\* ORDER BY id: the ids of the table, lowest first
Ascending == [i \in 1..NumTickets |-> i]

\* mutant: the catalog lists every ticket row
AllOfTier(tier) == TicketsOfTier(tier)

\* WHERE available = true, for one tier
ListedOfTier(tier) == {t \in TicketsOfTier(tier) : available[t]}

\* the rows of one tier in the order of their ids; a row is written as its id, its
\* other columns are TierOf(id), PriceOf(TierOf(id)) and available = true
RowsOfTier(tier) == SelectSeq(Ascending, LAMBDA t : t \in ListedOfTier(tier))

getAllAvailableTickets ==
  RowsOfTier(TierOrder[1]) \o RowsOfTier(TierOrder[2]) \o RowsOfTier(TierOrder[3])

\* mutant: the read waits for the row locks of the booking transactions
ReadWaitsForLocks == \E p \in Procs : rowLocks[p] # {}

\* a plain SELECT takes no row lock and waits for none
ReadBlocked == FALSE

\* a call of getTicketAvailability: the committed rows, as READ COMMITTED sees them
GetTicketAvailability ==
  /\ ~ReadBlocked
  /\ lastRead' = [call |-> "getTicketAvailability",
                  availability |-> getTicketAvailability, catalog |-> <<>>]
  /\ UNCHANGED <<available, bookings, pc, request, txState, rowLocks, cursor, tickets,
                 bookingReference, txBookings, txUnavailable, localBookings,
                 paymentCalls, result, error, nextRef,
                 isolation, response, migrateLog, body, migration, released>>

\* a call of getAllAvailableTickets
GetAllAvailableTickets ==
  /\ ~ReadBlocked
  /\ lastRead' = [call |-> "getAllAvailableTickets",
                  availability |-> <<>>, catalog |-> getAllAvailableTickets]
  /\ UNCHANGED <<available, bookings, pc, request, txState, rowLocks, cursor, tickets,
                 bookingReference, txBookings, txUnavailable, localBookings,
                 paymentCalls, result, error, nextRef,
                 isolation, response, migrateLog, body, migration, released>>

\* the requests the route's schema lets through, for the client on connection p
Requests(p) == [tier : Tiers, quantity : 1..MaxQuantity, userId : {UserOf(p)}]

\* ---- Spec: two clients call createBooking again and again ----
Next ==
  \/ \E p \in Procs : \E req \in Requests(p) : createBooking(p, req)
  \/ \E p \in Procs : SetIsolation(p)
  \/ \E p \in Procs : Begin(p)
  \/ \E p \in Procs : SelectLockRow(p)
  \/ \E p \in Procs : SelectSkipLocked(p)
  \/ \E p \in Procs : SelectReturn(p, nextRef)
  \/ \E p \in Procs : InsertBooking(p)
  \/ \E p \in Procs, paymentSuccess \in BOOLEAN : UpdateTicket(p, paymentSuccess)
  \/ \E p \in Procs : UpdateStatus(p)
  \/ \E p \in Procs : Commit(p)
  \/ \E p \in Procs : Rollback(p)
  \/ \E p \in Procs : RollbackCatch(p)
  \/ \E p \in Procs : Release(p)
  \/ \E p \in Procs : Finish(p)

Spec == Init /\ [][Next]_vars

\* ---- SpecBurst: one call per client, all for the same tier and quantity, and a
\* payment step that always succeeds ----
BurstCall(p, req) ==
  /\ createBooking(p, req)
  /\ \A q \in Procs \ {p} :
       pc[q] # "idle" => request[q].tier = req.tier /\ request[q].quantity = req.quantity

NextBurst ==
  \/ \E p \in Procs : \E req \in Requests(p) : BurstCall(p, req)
  \/ \E p \in Procs : SetIsolation(p)
  \/ \E p \in Procs : Begin(p)
  \/ \E p \in Procs : SelectLockRow(p)
  \/ \E p \in Procs : SelectSkipLocked(p)
  \/ \E p \in Procs : SelectReturn(p, nextRef)
  \/ \E p \in Procs : InsertBooking(p)
  \/ \E p \in Procs : UpdateTicket(p, TRUE)
  \/ \E p \in Procs : UpdateStatus(p)
  \/ \E p \in Procs : Commit(p)
  \/ \E p \in Procs : Rollback(p)
  \/ \E p \in Procs : RollbackCatch(p)
  \/ \E p \in Procs : Release(p)

SpecBurst == Init /\ [][NextBurst]_vars

\* ---- SpecRetry: a call may come with the reference of an earlier call that has
\* ended (the retry of a request); otherwise the reference is fresh ----
RetryReference(p, ref) ==
  \/ ref = nextRef
  \/ /\ ref < nextRef
     /\ \A q \in Procs \ {p} : bookingReference[q] = ref => pc[q] = "done"

NextRetry ==
  \/ \E p \in Procs : \E req \in Requests(p) : createBooking(p, req)
  \/ \E p \in Procs : SetIsolation(p)
  \/ \E p \in Procs : Begin(p)
  \/ \E p \in Procs : SelectLockRow(p)
  \/ \E p \in Procs : SelectSkipLocked(p)
  \/ \E p \in Procs : \E ref \in 1..nextRef : RetryReference(p, ref) /\ SelectReturn(p, ref)
  \/ \E p \in Procs : InsertBooking(p)
  \/ \E p \in Procs, paymentSuccess \in BOOLEAN : UpdateTicket(p, paymentSuccess)
  \/ \E p \in Procs : UpdateStatus(p)
  \/ \E p \in Procs : Commit(p)
  \/ \E p \in Procs : Rollback(p)
  \/ \E p \in Procs : RollbackCatch(p)
  \/ \E p \in Procs : Release(p)
  \/ \E p \in Procs : Finish(p)

SpecRetry == Init /\ [][NextRetry]_vars

\* ---- SpecAbort: one call per client and per life of the server process; an attempt
\* may stop at any statement of its transaction ----
\* the statements between BEGIN and the end of the transaction
InTransaction ==
  {"select", "insert", "update", "updateStatus", "commit",
   "rollbackInsufficient", "rollbackConflict", "rollbackPayment"}

\* The connection is lost while a statement of the transaction is awaited: the
\* server aborts the transaction, the query rejects, and the call goes on in the
\* catch of line 145 (whose ROLLBACK fails and is ignored) with that error.
ConnectionLost(p) ==
  /\ pc[p] \in InTransaction
  /\ bookings' = RollbackWrites(p).bookings
  /\ available' = RollbackWrites(p).available
  /\ txBookings' = [txBookings EXCEPT ![p] = {}]
  /\ txUnavailable' = [txUnavailable EXCEPT ![p] = {}]
  /\ rowLocks' = [rowLocks EXCEPT ![p] = LocksAtEnd(p)]
  /\ txState' = [txState EXCEPT ![p] = "none"]
  /\ isolation' = [isolation EXCEPT ![p] = "none"]
  /\ error' = [error EXCEPT ![p] =
       [kind |-> "Connection terminated", requested |-> 0, available |-> 0]]
  /\ pc' = [pc EXCEPT ![p] = "rollbackCatch"]
  /\ UNCHANGED <<request, cursor, tickets, bookingReference, localBookings,
                 paymentCalls, result, nextRef, response, migrateLog, body, lastRead, migration, released>>

\* The server process dies and is started again: every connection is closed, so the
\* database aborts every open transaction; no call is left and no caller is answered.
ProcessCrash ==
  /\ \E p \in Procs : pc[p] \in InTransaction
  /\ bookings' = bookings
  /\ available' = available
  /\ txBookings' = [p \in Procs |-> {}]
  /\ txUnavailable' = [p \in Procs |-> {}]
  /\ rowLocks' = [p \in Procs |-> LocksAtEnd(p)]
  /\ txState' = [p \in Procs |-> "none"]
  /\ isolation' = [p \in Procs |-> "none"]
  /\ pc' = [p \in Procs |-> "idle"]
  /\ request' = [p \in Procs |-> NoRequest]
  /\ cursor' = [p \in Procs |-> 0]
  /\ tickets' = [p \in Procs |-> <<>>]
  /\ bookingReference' = [p \in Procs |-> NoReference]
  /\ localBookings' = [p \in Procs |-> <<>>]
  /\ paymentCalls' = [p \in Procs |-> 0]
  /\ result' = [p \in Procs |-> <<>>]
  /\ error' = [p \in Procs |-> NoError]
  /\ released' = [p \in Procs |-> 0]
  /\ UNCHANGED <<nextRef, response, migrateLog, body, lastRead, migration>>

NextAbort ==
  \/ \E p \in Procs : \E req \in Requests(p) : createBooking(p, req)
  \/ \E p \in Procs : SetIsolation(p)
  \/ \E p \in Procs : Begin(p)
  \/ \E p \in Procs : SelectLockRow(p)
  \/ \E p \in Procs : SelectSkipLocked(p)
  \/ \E p \in Procs : SelectReturn(p, nextRef)
  \/ \E p \in Procs : InsertBooking(p)
  \/ \E p \in Procs, paymentSuccess \in BOOLEAN : UpdateTicket(p, paymentSuccess)
  \/ \E p \in Procs : UpdateStatus(p)
  \/ \E p \in Procs : Commit(p)
  \/ \E p \in Procs : Rollback(p)
  \/ \E p \in Procs : RollbackCatch(p)
  \/ \E p \in Procs : Release(p)
  \/ \E p \in Procs : ConnectionLost(p)
  \/ ProcessCrash

SpecAbort == Init /\ [][NextAbort]_vars

\* ---- SpecError: one call per client, and any statement of a call may fail ----
\* the positions at which a call awaits a statement that the database can reject:
\* SET TRANSACTION, BEGIN, the selection, an INSERT, an UPDATE, the status UPDATE
\* and the COMMIT
Statements ==
  {"setIsolation", "begin", "select", "insert", "update", "updateStatus", "commit"}

\* The awaited client.query rejects with an error that is none of the typed
\* failures (for an INSERT: a code other than 23505, rethrown by line 120).  Inside
\* the transaction the failed statement leaves the transaction aborted, its locks
\* held until the ROLLBACK of the catch; a failed COMMIT ends the transaction
\* rolled back.  Control passes to the catch of line 145 with that error.
StorageError(p) ==
  /\ pc[p] \in Statements
  /\ error' = [error EXCEPT ![p] =
       [kind |-> "storage error", requested |-> 0, available |-> 0]]
  /\ IF pc[p] = "commit"
       THEN /\ bookings' = RollbackWrites(p).bookings
            /\ available' = RollbackWrites(p).available
            /\ txBookings' = [txBookings EXCEPT ![p] = {}]
            /\ txUnavailable' = [txUnavailable EXCEPT ![p] = {}]
            /\ rowLocks' = [rowLocks EXCEPT ![p] = LocksAtEnd(p)]
            /\ txState' = [txState EXCEPT ![p] = "none"]
            /\ isolation' = [isolation EXCEPT ![p] = "none"]
       ELSE /\ txState' = [txState EXCEPT ![p] = IF @ = "none" THEN "none" ELSE "aborted"]
            /\ UNCHANGED <<bookings, available, txBookings, txUnavailable, rowLocks,
                           isolation>>
  /\ pc' = [pc EXCEPT ![p] = "rollbackCatch"]
  /\ UNCHANGED <<request, cursor, tickets, bookingReference, localBookings,
                 paymentCalls, result, nextRef, response, migrateLog, body, lastRead, migration, released>>

NextError ==
  \/ \E p \in Procs : \E req \in Requests(p) : createBooking(p, req)
  \/ \E p \in Procs : SetIsolation(p)
  \/ \E p \in Procs : Begin(p)
  \/ \E p \in Procs : SelectLockRow(p)
  \/ \E p \in Procs : SelectSkipLocked(p)
  \/ \E p \in Procs : SelectReturn(p, nextRef)
  \/ \E p \in Procs : InsertBooking(p)
  \/ \E p \in Procs, paymentSuccess \in BOOLEAN : UpdateTicket(p, paymentSuccess)
  \/ \E p \in Procs : UpdateStatus(p)
  \/ \E p \in Procs : Commit(p)
  \/ \E p \in Procs : Rollback(p)
  \/ \E p \in Procs : RollbackCatch(p)
  \/ \E p \in Procs : Release(p)
  \/ \E p \in Procs : StorageError(p)

SpecError == Init /\ [][NextError]_vars

\* ---- SpecFair: Spec, where the database answers every statement and the event
\* loop runs every continuation: a call that can take its next step takes it ----
Step(p) ==
  \/ SetIsolation(p)
  \/ Begin(p)
  \/ SelectLockRow(p)
  \/ SelectSkipLocked(p)
  \/ SelectReturn(p, nextRef)
  \/ InsertBooking(p)
  \/ \E paymentSuccess \in BOOLEAN : UpdateTicket(p, paymentSuccess)
  \/ UpdateStatus(p)
  \/ Commit(p)
  \/ Rollback(p)
  \/ RollbackCatch(p)
  \/ Release(p)

SpecFair == Init /\ [][Next]_vars /\ \A p \in Procs : WF_vars(Step(p))

\* ---- the route POST /api/bookings ----
\* bookingRequestSchema: z.enum, z.number().int().min(1).max(100), z.string().min(1)
MaxPerRequest == 100

\* mutant: the handler calls createBooking with whatever it was sent
ParseAnything(b) == TRUE

safeParse(b) ==
  /\ b.tier \in Tiers
  /\ b.fraction = 0
  /\ b.quantity >= 1
  /\ b.quantity <= MaxPerRequest
  /\ Len(b.userId) >= 1

\* validationResult.data
Data(b) == [tier |-> b.tier, quantity |-> b.quantity, userId |-> b.userId]

\* the bodies a client sends: the requests of Requests(p), and bodies with a tier
\* outside the enum, a quantity of 0, 1.5 or 101, or an empty userId
Bodies(p) ==
  [tier : Tiers, quantity : 1..MaxQuantity, fraction : {0}, userId : {UserOf(p)}]
  \cup [tier : {"Balcony"}, quantity : {1}, fraction : {0}, userId : {UserOf(p)}]
  \cup [tier : {"GA"}, quantity : {0, MaxPerRequest + 1}, fraction : {0},
         userId : {UserOf(p)}]
  \cup [tier : {"GA"}, quantity : {1}, fraction : {5}, userId : {UserOf(p)}]
  \cup [tier : {"GA"}, quantity : {1}, fraction : {0}, userId : {""}]
  \cup [tier : {"Balcony"}, quantity : {0}, fraction : {5}, userId : {""}]

\* lines 53-65: validate the body; 400, or the call of createBooking
PostBooking(p, b) ==
  /\ pc[p] = "idle"
  /\ body' = [body EXCEPT ![p] = b]
  /\ IF safeParse(b)
       THEN /\ nextRef + Cardinality({q \in Procs : pc[q] \in BeforeReference})
                  \in References
            /\ pc' = [pc EXCEPT ![p] = "setIsolation"]
            /\ request' = [request EXCEPT ![p] = Data(b)]
            /\ UNCHANGED response
       ELSE /\ pc' = [pc EXCEPT ![p] = "responded"]
            /\ response' = [response EXCEPT ![p] = 400]
            /\ UNCHANGED request
  /\ UNCHANGED <<available, bookings, txState, rowLocks, cursor, tickets,
                 bookingReference, txBookings, txUnavailable, localBookings,
                 paymentCalls, result, error, nextRef, isolation, migrateLog,
                 lastRead, migration, released>>

\* mutant: a payment failure falls through to the last line of the handler
PaymentUnmapped(kind) ==
  IF kind = "Insufficient tickets" THEN 409
  ELSE IF kind = "already booked" THEN 409
  ELSE 500

\* lines 76-88: the status for an error thrown by createBooking
StatusOfError(kind) ==
  IF kind = "Insufficient tickets" THEN 409
  ELSE IF kind = "already booked" THEN 409
  ELSE IF kind = "Payment processing failed" THEN 402
  ELSE 500

\* lines 65-89: createBooking has settled; the response is sent
Respond(p) ==
  /\ pc[p] = "done"
  /\ response' = [response EXCEPT ![p] =
       IF error[p] = NoError THEN 201 ELSE StatusOfError(error[p].kind)]
  /\ pc' = [pc EXCEPT ![p] = "responded"]
  /\ UNCHANGED <<available, bookings, request, txState, rowLocks, cursor, tickets,
                 bookingReference, txBookings, txUnavailable, localBookings,
                 paymentCalls, result, error, nextRef, isolation, migrateLog, body, lastRead, migration, released>>

\* ---- SpecRoute: each client posts one body to /api/bookings; a connection may be
\* lost ----
NextRoute ==
  \/ \E p \in Procs : \E b \in Bodies(p) : PostBooking(p, b)
  \/ \E p \in Procs : SetIsolation(p)
  \/ \E p \in Procs : Begin(p)
  \/ \E p \in Procs : SelectLockRow(p)
  \/ \E p \in Procs : SelectSkipLocked(p)
  \/ \E p \in Procs : SelectReturn(p, nextRef)
  \/ \E p \in Procs : InsertBooking(p)
  \/ \E p \in Procs, paymentSuccess \in BOOLEAN : UpdateTicket(p, paymentSuccess)
  \/ \E p \in Procs : UpdateStatus(p)
  \/ \E p \in Procs : Commit(p)
  \/ \E p \in Procs : Rollback(p)
  \/ \E p \in Procs : RollbackCatch(p)
  \/ \E p \in Procs : Release(p)
  \/ \E p \in Procs : ConnectionLost(p)
  \/ \E p \in Procs : Respond(p)

SpecRoute == Init /\ [][NextRoute]_vars

\* ---- migrate ----
\* mutant: the tickets are inserted without the check of line 213
NeverExist == FALSE

\* lines 212-213: SELECT COUNT(*) FROM tickets is not '0'
TicketsExist == DOMAIN available # {}

\* lines 214-221: the rows of allTickets get the next values of the SERIAL id
InsertedTickets ==
  LET n == Cardinality(DOMAIN available) IN
    [t \in DOMAIN available \cup (n + 1)..(n + NumTickets) |->
       IF t \in DOMAIN available THEN available[t] ELSE TRUE]

\* one run of migrate, as its transaction commits (line 228); CREATE ... IF NOT
\* EXISTS leaves existing tables and indexes alone
Migrate ==
  /\ IF TicketsExist
       THEN /\ available' = available
            /\ migrateLog' = "skipped"
       ELSE /\ available' = InsertedTickets
            /\ migrateLog' = "inserted"
  /\ UNCHANGED <<bookings, pc, request, txState, rowLocks, cursor, tickets,
                 bookingReference, txBookings, txUnavailable, localBookings,
                 paymentCalls, result, error, nextRef, isolation, response, body, lastRead, migration, released>>

\* ---- SpecMigrate: from the empty database; migrate runs first and may run again at
\* any time, between the statements of the booking calls ----
InitEmpty ==
  /\ available = <<>>
  /\ bookings = {}
  /\ pc = [p \in Procs |-> "idle"]
  /\ request = [p \in Procs |-> NoRequest]
  /\ txState = [p \in Procs |-> "none"]
  /\ rowLocks = [p \in Procs |-> {}]
  /\ cursor = [p \in Procs |-> 0]
  /\ tickets = [p \in Procs |-> <<>>]
  /\ bookingReference = [p \in Procs |-> NoReference]
  /\ txBookings = [p \in Procs |-> {}]
  /\ txUnavailable = [p \in Procs |-> {}]
  /\ localBookings = [p \in Procs |-> <<>>]
  /\ paymentCalls = [p \in Procs |-> 0]
  /\ result = [p \in Procs |-> <<>>]
  /\ error = [p \in Procs |-> NoError]
  /\ nextRef = 1
  /\ isolation = [p \in Procs |-> "none"]
  /\ response = [p \in Procs |-> NoResponse]
  /\ migrateLog = "none"
  /\ body = [p \in Procs |-> NoBody]
  /\ lastRead = NoRead
  /\ migration = NoMigration
  /\ released = [p \in Procs |-> 0]

NextMigrate ==
  \/ Migrate
  \/ migrateLog # "none" /\ Next

SpecMigrate == InitEmpty /\ [][NextMigrate]_vars

\* ---- migrate statement by statement, with the inventory at its real size ----
\* lines 191-209: the lengths of vipTickets, frontRowTickets and gaTickets
VipTickets == 100
FrontRowTickets == 200
GaTickets == 1000

\* line 214: allTickets = [...vipTickets, ...frontRowTickets, ...gaTickets]
AllTicketsLength == VipTickets + FrontRowTickets + GaTickets

\* allTickets[i]
TicketAt(i) ==
  IF i <= VipTickets THEN [tier |-> "VIP", price |-> VipPrice]
  ELSE IF i <= VipTickets + FrontRowTickets THEN [tier |-> "Front Row", price |-> FrontRowPrice]
  ELSE [tier |-> "GA", price |-> GaPrice]

\* id SERIAL: the rows inserted by the open transaction carry the last `inserted`
\* values of the sequence, in the order of allTickets
InsertedRows ==
  [i \in 1..migration.inserted |->
     [id |-> migration.serial - migration.inserted + i - 1,
      tier |-> TicketAt(i).tier,
      price |-> TicketAt(i).price,
      available |-> TRUE]]

\* mutant: the INSERTs ran outside the transaction and the ROLLBACK keeps them
PartialLoad == migration.table \o InsertedRows

\* line 231, ROLLBACK: the tickets table without the rows of the transaction
MigrateRollbackWrites == migration.table

\* line 228, COMMIT: the tickets table with the rows of the transaction
MigrateCommitWrites == migration.table \o InsertedRows

\* the frame of a step of migrate
MigrateFrame ==
  UNCHANGED <<available, bookings, pc, request, txState, rowLocks, cursor, tickets,
              bookingReference, txBookings, txUnavailable, localBookings,
              paymentCalls, result, error, nextRef, isolation, response,
              migrateLog, body, lastRead, released>>

\* lines 141-144: a run starts, BEGIN.  The values of a sequence are not given back
\* by a ROLLBACK, so runs after a failed run start at a higher id; the guard caps
\* the sequence.
MigrateBegin ==
  /\ migration.pc = "idle"
  /\ migration.serial + AllTicketsLength - 1 <= MaxSerial
  /\ migration' = [migration EXCEPT !.pc = "create", !.outcome = "none"]
  /\ MigrateFrame

\* lines 147-189: CREATE TABLE / CREATE INDEX ... IF NOT EXISTS
MigrateCreateTables ==
  /\ migration.pc = "create"
  /\ migration' = [migration EXCEPT !.pc = "count"]
  /\ MigrateFrame

\* lines 212-213: SELECT COUNT(*) FROM tickets
MigrateCountTickets ==
  /\ migration.pc = "count"
  /\ migration' = [migration EXCEPT !.pc = IF Len(migration.table) = 0 THEN "insert" ELSE "commit"]
  /\ MigrateFrame

\* lines 216-221: one INSERT of the loop, or the end of the loop
MigrateInsertTicket ==
  /\ migration.pc = "insert"
  /\ migration' =
       IF migration.inserted < AllTicketsLength
         THEN [migration EXCEPT !.inserted = @ + 1, !.serial = @ + 1]
         ELSE [migration EXCEPT !.pc = "commit"]
  /\ MigrateFrame

\* line 228
MigrateCommit ==
  /\ migration.pc = "commit"
  /\ migration' = [migration EXCEPT !.pc = "release", !.outcome = "ok", !.inserted = 0,
                                    !.table = MigrateCommitWrites]
  /\ MigrateFrame

\* a statement of the try block (BEGIN, a CREATE, the count, an INSERT, the COMMIT)
\* is rejected: control passes to the catch of line 230
MigrateFails ==
  /\ migration.pc \in {"create", "count", "insert", "commit"}
  /\ migration' = [migration EXCEPT !.pc = "rollback"]
  /\ MigrateFrame

\* lines 230-233: ROLLBACK, then the error is thrown
MigrateRollback ==
  /\ migration.pc = "rollback"
  /\ migration' = [migration EXCEPT !.pc = "release", !.outcome = "failed", !.inserted = 0,
                                    !.table = MigrateRollbackWrites]
  /\ MigrateFrame

\* line 235: client.release(); the script can be run again
MigrateRelease ==
  /\ migration.pc = "release"
  /\ migration' = [migration EXCEPT !.pc = "idle"]
  /\ MigrateFrame

\* ---- SpecLoad: migrate is run on the empty database, again and again, and any of
\* its statements may fail ----
NextLoad ==
  \/ MigrateBegin
  \/ MigrateCreateTables
  \/ MigrateCountTickets
  \/ MigrateInsertTicket
  \/ MigrateCommit
  \/ MigrateFails
  \/ MigrateRollback
  \/ MigrateRelease

SpecLoad == InitEmpty /\ [][NextLoad]_vars

\* ---- SpecRead: one booking call per client, and the read entry points called at
\* any time between the statements of the booking calls ----
NextRead ==
  \/ \E p \in Procs : \E req \in Requests(p) : createBooking(p, req)
  \/ \E p \in Procs : SetIsolation(p)
  \/ \E p \in Procs : Begin(p)
  \/ \E p \in Procs : SelectLockRow(p)
  \/ \E p \in Procs : SelectSkipLocked(p)
  \/ \E p \in Procs : SelectReturn(p, nextRef)
  \/ \E p \in Procs : InsertBooking(p)
  \/ \E p \in Procs, paymentSuccess \in BOOLEAN : UpdateTicket(p, paymentSuccess)
  \/ \E p \in Procs : UpdateStatus(p)
  \/ \E p \in Procs : Commit(p)
  \/ \E p \in Procs : Rollback(p)
  \/ \E p \in Procs : RollbackCatch(p)
  \/ \E p \in Procs : Release(p)
  \/ GetTicketAvailability
  \/ GetAllAvailableTickets

SpecRead == Init /\ [][NextRead]_vars

\* ---- SpecSolo: the calls come one at a time, a call starts when no other call is
\* under way.  No row is ever locked by another transaction, so the scan never
\* skips (C25_NeverSkips) and SelectSkipLocked is left out ----
SoloCall(p, req) ==
  /\ \A q \in Procs \ {p} : pc[q] = "idle"
  /\ createBooking(p, req)

NextSolo ==
  \/ \E p \in Procs : \E req \in Requests(p) : SoloCall(p, req)
  \/ \E p \in Procs : SetIsolation(p)
  \/ \E p \in Procs : Begin(p)
  \/ \E p \in Procs : SelectLockRow(p)
  \/ \E p \in Procs : SelectReturn(p, nextRef)
  \/ \E p \in Procs : InsertBooking(p)
  \/ \E p \in Procs, paymentSuccess \in BOOLEAN : UpdateTicket(p, paymentSuccess)
  \/ \E p \in Procs : UpdateStatus(p)
  \/ \E p \in Procs : Commit(p)
  \/ \E p \in Procs : Rollback(p)
  \/ \E p \in Procs : RollbackCatch(p)
  \/ \E p \in Procs : Release(p)
  \/ \E p \in Procs : Finish(p)

SpecSolo == Init /\ [][NextSolo]_vars

\* ======================= properties =======================

InFlight(p) == txState[p] # "none"
Batch(p) == Range(result[p])
RowsOfReference(ref) == {b \in bookings : b.booking_reference = ref}

\* every booking confirmed so far: the committed rows with status 'success' and the
\* rows of the batches handed back to callers
ConfirmedBookings ==
  {b \in bookings : b.payment_status = "success"} \cup UNION {Batch(p) : p \in Procs}

\* C1: no ticket is referenced by more than one confirmed booking, whatever the
\* interleaving of the createBooking calls
C1_NoDoubleBooking ==
  \A b1 \in ConfirmedBookings : \A b2 \in ConfirmedBookings :
     b1.ticket_id = b2.ticket_id => b1 = b2

\* two clients hold committed bookings of the same tier
C1_Witness ==
  \E b1 \in bookings : \E b2 \in bookings :
     /\ b1.user_id # b2.user_id
     /\ TierOf(b1.ticket_id) = TierOf(b2.ticket_id)
     /\ b1.payment_status = "success" /\ b2.payment_status = "success"

\* C2: a ticket row is locked by at most one in-flight call at a time, so the
\* selections of two in-flight calls are disjoint
C2_ClaimsDisjoint ==
  \A p \in Procs : \A q \in Procs \ {p} :
     /\ rowLocks[p] \cap rowLocks[q] = {}
     /\ (InFlight(p) /\ InFlight(q)) => Range(tickets[p]) \cap Range(tickets[q]) = {}

\* two in-flight calls for the same tier both hold selected tickets
C2_Witness ==
  \E p \in Procs : \E q \in Procs \ {p} :
     /\ InFlight(p) /\ InFlight(q)
     /\ request[p].tier = request[q].tier
     /\ tickets[p] # <<>> /\ tickets[q] # <<>>
     /\ rowLocks[p] = Range(tickets[p]) /\ rowLocks[q] = Range(tickets[q])

\* C3: the committed bookings that carry the reference of a call are none at all, or
\* exactly `quantity` of them, all 'success'; never a part of the batch, never a mix
C3_AllOrNothing ==
  \A p \in Procs :
     bookingReference[p] # NoReference =>
       LET rows == RowsOfReference(bookingReference[p]) IN
         \/ rows = {}
         \/ /\ Cardinality(rows) = request[p].quantity
            /\ \A b \in rows : b.payment_status = "success"
            /\ pc[p] \in {"release", "done"}

\* a call for two tickets wrote a row and ended with nothing committed, while the
\* other client's batch is committed in full
C3_Witness ==
  \E p \in Procs : \E q \in Procs \ {p} :
     /\ pc[p] = "done" /\ request[p].quantity = 2
     /\ bookingReference[p] # NoReference
     /\ RowsOfReference(bookingReference[p]) = {}
     /\ pc[q] = "done" /\ RowsOfReference(bookingReference[q]) # {}

\* C4: a call that returns hands back exactly `quantity` bookings, on pairwise
\* distinct tickets of the requested tier, all 'success' and all with one
\* reference; a call that does not return a batch throws
C4_ReturnedBatch ==
  \A p \in Procs :
     /\ result[p] # <<>> =>
          /\ Len(result[p]) = request[p].quantity
          /\ \A i \in 1..Len(result[p]) : \A j \in 1..Len(result[p]) :
               result[p][i].ticket_id = result[p][j].ticket_id => i = j
          /\ \A i \in 1..Len(result[p]) :
               /\ TierOf(result[p][i].ticket_id) = request[p].tier
               /\ result[p][i].payment_status = "success"
               /\ result[p][i].booking_reference = bookingReference[p]
          /\ error[p] = NoError
     /\ pc[p] = "done" => (result[p] # <<>> \/ error[p] # NoError)

\* a call has returned a batch
C4_Witness ==
  \E p \in Procs : pc[p] = "done" /\ result[p] # <<>> /\ request[p].quantity >= 1

\* C5 (SpecBurst: the other client never calls, the payment step succeeds): a call
\* for two or more tickets of a tier that holds that many is confirmed, with one
\* committed row of quantity 1 per ticket, all carrying the same reference
C5_MultiUnitConfirmed ==
  \A p \in Procs :
     ( /\ pc[p] = "done"
       /\ \A q \in Procs \ {p} : pc[q] = "idle"
       /\ request[p].quantity >= 2
       /\ getTicketAvailability[request[p].tier].total >= request[p].quantity )
     => /\ Len(result[p]) = request[p].quantity
        /\ Batch(p) \subseteq bookings
        /\ \A b \in Batch(p) :
             b.quantity = 1 /\ b.booking_reference = bookingReference[p]

\* C6 (SpecBurst: one call per client, the payment step succeeds): of two calls for
\* 2 tickets of a tier that holds 3, exactly one is confirmed with 2 tickets and the
\* other is rejected as a whole: insufficient, requested 2, found 1
C6_OneOfTwoConfirmed ==
  ( \A p \in Procs :
       /\ pc[p] = "done"
       /\ request[p].quantity = 2
       /\ getTicketAvailability[request[p].tier].total = 3 )
  => \E p \in Procs : \E q \in Procs \ {p} :
       /\ Len(result[p]) = 2 /\ error[p] = NoError
       /\ result[q] = <<>>
       /\ error[q] = [kind |-> "Insufficient tickets", requested |-> 2, available |-> 1]

\* the ROLLBACK of a call that failed at the payment step or on a unique violation
RollsBackFailure(p) ==
  /\ pc[p] \in {"rollbackConflict", "rollbackPayment"}
  /\ pc'[p] = "rollbackCatch"

\* the COMMIT of a call
Commits(p) == pc[p] = "commit" /\ pc'[p] = "release"

\* C7: after a call ended with the payment failure or the 'already booked'
\* conflict, every ticket it had selected is available again and unclaimed, no
\* booking row of the call exists, and the committed tables are what they were
\* before the call but for the commits of other calls
C7_RollbackRestores ==
  [][ /\ \A p \in Procs :
          RollsBackFailure(p) =>
            /\ \A t \in Range(tickets[p]) :
                 available'[t] /\ t \notin txUnavailable'[p] /\ t \notin rowLocks'[p]
            /\ {b \in bookings' : b.booking_reference = bookingReference[p]} = {}
            /\ txBookings'[p] = {}
            /\ bookings' = bookings
            /\ available' = available
      /\ (bookings' # bookings \/ available' # available) =>
            \E p \in Procs : Commits(p) ]_vars

\* a call whose payment failed has rolled back: the ticket it had booked and marked
\* unavailable is available again
C7_Witness ==
  \E p \in Procs :
     /\ pc[p] = "rollbackCatch"
     /\ error[p].kind = "Payment processing failed"
     /\ Len(localBookings[p]) = request[p].quantity
     /\ \A t \in Range(tickets[p]) : available[t]

\* the state of a call that threw the insufficient-tickets error
C8_State ==
  \A p \in Procs :
     error[p].kind = "Insufficient tickets" =>
       /\ error[p].requested = request[p].quantity
       /\ error[p].available < request[p].quantity
       /\ paymentCalls[p] = 0
       /\ result[p] = <<>>
       /\ bookingReference[p] = NoReference
       /\ txBookings[p] = {} /\ txUnavailable[p] = {}
       /\ pc[p] = "rollbackInsufficient" =>
            error[p].available = Len(tickets[p]) /\ rowLocks[p] = Range(tickets[p])
       /\ pc[p] # "rollbackInsufficient" => rowLocks[p] = {} /\ ~InFlight(p)

\* the steps of such a call: the check after the selection, and its ROLLBACK
C8_Step ==
  \A p \in Procs :
     /\ (pc[p] = "select" /\ pc'[p] # "select") =>
          ( (Len(tickets[p]) < request[p].quantity)
              <=> (pc'[p] = "rollbackInsufficient"
                     /\ error'[p].kind = "Insufficient tickets") )
     /\ (pc[p] = "rollbackInsufficient" /\ pc'[p] # "rollbackInsufficient") =>
          /\ bookings' = bookings
          /\ available' = available
          /\ rowLocks'[p] = {}
          /\ ~InFlight(p)'

\* C8: when the selection returns fewer than `quantity` tickets, and only then, the
\* call rolls back, releases its claims, writes no booking, flips no ticket, never
\* calls the payment step, and throws the insufficient-tickets error with
\* requested = quantity and available = the number of tickets it had selected
C8_InsufficientAborts == []C8_State /\ [][C8_Step]_vars

\* a call for 2 tickets selected 1, released it and threw
C8_Witness ==
  \E p \in Procs :
     /\ pc[p] = "rollbackCatch"
     /\ error[p] = [kind |-> "Insufficient tickets", requested |-> 2, available |-> 1]
     /\ Len(tickets[p]) = 1
     /\ rowLocks[p] = {}

Done == {p \in Procs : pc[p] = "done"}
Confirmed == {p \in Done : result[p] # <<>>}
Smaller(a, b) == IF a <= b THEN a ELSE b

\* C9 (SpecBurst: one call per client, the payment step succeeds): when N
\* single-ticket calls for one tier holding M tickets have all finished, exactly
\* min(N, M) are confirmed, on pairwise distinct tickets, the others failed as
\* insufficient or conflict, and the tier reports M - min(N, M) available
C9_BurstOfSingles ==
  ( /\ Done # {}
    /\ \A p \in Procs : pc[p] \in {"idle", "done"}
    /\ \A p \in Done : request[p].quantity = 1 )
  => LET tier == request[CHOOSE p \in Done : TRUE].tier
         M == getTicketAvailability[tier].total
         N == Cardinality(Done)
     IN /\ Cardinality(Confirmed) = Smaller(N, M)
        /\ \A p \in Confirmed : \A q \in Confirmed \ {p} :
             Batch(p) \cap Batch(q) = {}
             /\ \A b \in Batch(p) : \A c \in Batch(q) : b.ticket_id # c.ticket_id
        /\ \A p \in Done \ Confirmed :
             error[p].kind \in {"Insufficient tickets", "already booked"}
        /\ getTicketAvailability[tier].available = M - Smaller(N, M)

\* two single-ticket calls for the one VIP ticket have finished: one is confirmed,
\* the other found nothing
C9_Witness ==
  /\ \A p \in Procs :
       pc[p] = "done" /\ request[p].quantity = 1
       /\ getTicketAvailability[request[p].tier].total = 1
  /\ \E p \in Procs : result[p] # <<>>
  /\ \E p \in Procs : error[p].kind = "Insufficient tickets"

\* C10 (SpecRetry): a call that repeats a request under the reference of its
\* committed batch hands back that batch unchanged and throws nothing
C10_IdempotentRetry ==
  \A p \in Procs :
     LET rows == RowsOfReference(bookingReference[p]) IN
       ( /\ pc[p] = "done"
         /\ bookingReference[p] # NoReference
         /\ rows # {}
         /\ Cardinality(rows) = request[p].quantity
         /\ \A b \in rows :
              b.user_id = request[p].userId /\ TierOf(b.ticket_id) = request[p].tier )
       => /\ error[p] = NoError
          /\ Batch(p) = rows

\* no attempt is in flight
Quiescent == \A p \in Procs : ~InFlight(p)

RECURSIVE CountAvailable(_, _)
\* the number of ticket rows of S that are of the tier and have available = true
CountAvailable(S, tier) ==
  IF S = {} THEN 0
  ELSE LET t == CHOOSE x \in S : TRUE
       IN (IF TierOf(t) = tier /\ available[t] THEN 1 ELSE 0)
            + CountAvailable(S \ {t}, tier)

RECURSIVE CountTotal(_, _)
\* the number of ticket rows of S that are of the tier
CountTotal(S, tier) ==
  IF S = {} THEN 0
  ELSE LET t == CHOOSE x \in S : TRUE
       IN (IF TierOf(t) = tier THEN 1 ELSE 0) + CountTotal(S \ {t}, tier)

\* the report is the count of the committed ticket rows, tier by tier
C11_Report ==
  Quiescent =>
    \A tier \in Tiers :
       /\ getTicketAvailability[tier].available = CountAvailable(DOMAIN available, tier)
       /\ getTicketAvailability[tier].total = CountTotal(DOMAIN available, tier)

\* no step of a createBooking call changes the total of a tier
C11_TotalKept ==
  \A tier \in Tiers :
     getTicketAvailability'[tier].total = getTicketAvailability[tier].total

\* C11: whenever no attempt is in flight, getTicketAvailability reports for every
\* tier as available the number of its tickets with available = true and as total
\* the number of its tickets, and no sequence of createBooking calls changes a total
C11_ReportCounts == []C11_Report /\ [][C11_TotalKept]_vars

\* no attempt is in flight and the report shows a tier partly sold: 3 tickets, 2 left
C11_Witness ==
  /\ Quiescent
  /\ \E tier \in Tiers :
       /\ getTicketAvailability[tier].total = GaCount
       /\ getTicketAvailability[tier].available = GaCount - 1
       /\ \E b \in bookings : TierOf(b.ticket_id) = tier

\* the ROLLBACK of a call, whatever made it fail
RollsBack(p) ==
  /\ pc[p] \in {"rollbackInsufficient", "rollbackConflict", "rollbackPayment"}
  /\ pc'[p] = "rollbackCatch"

\* the tickets a call has selected or updated
Touched(p) == Range(tickets[p]) \cup txUnavailable[p]

\* C12: in the committed states the available flag of a ticket only ever goes from
\* true to false, and that in the COMMIT of the call that updated it; once false it
\* stays false; a call that rolls back leaves every ticket it touched at true
C12_FlagOneWay ==
  [][ /\ \A t \in DOMAIN available :
          /\ t \in DOMAIN available'
          /\ ~available[t] => ~available'[t]
          /\ available'[t] # available[t] =>
                \E p \in Procs : Commits(p) /\ t \in txUnavailable[p]
      /\ \A p \in Procs :
          RollsBack(p) => \A t \in Touched(p) : available[t] /\ available'[t] ]_vars

\* one ticket of a tier is committed as sold, and a call that had marked another
\* ticket of the tier unavailable has rolled back and left it available
C12_Witness ==
  \E p \in Procs : \E t \in DOMAIN available :
     /\ pc[p] = "rollbackCatch"
     /\ tickets[p] # <<>>
     /\ Len(localBookings[p]) >= 1
     /\ ~available[t] /\ TierOf(t) = request[p].tier
     /\ \A u \in Range(tickets[p]) : available[u] /\ u # t

\* C13 as stated: every attempt that has ended invoked the payment step exactly once
C13_OncePerAttempt == \A p \in Procs : pc[p] = "done" => paymentCalls[p] = 1

\* the pending or confirmed rows the transaction of p holds
RowsOfBatch(p) == {b.ticket_id : b \in txBookings[p]}

\* the batch of p is complete: `quantity` tickets locked, each with a booking row of
\* the transaction and marked unavailable by it
BatchMarked(p) ==
  /\ Len(tickets[p]) = request[p].quantity
  /\ Cardinality(Range(tickets[p])) = request[p].quantity
  /\ Range(tickets[p]) \subseteq rowLocks[p]
  /\ RowsOfBatch(p) = Range(tickets[p])
  /\ txUnavailable[p] = Range(tickets[p])

\* the payment step and the steps around it, state by state
C13_State ==
  \A p \in Procs :
     /\ paymentCalls[p] <= 1
     /\ pc[p] \in {"setIsolation", "begin", "select", "insert", "update",
                    "rollbackInsufficient", "rollbackConflict"} => paymentCalls[p] = 0
     /\ pc[p] \in {"updateStatus", "commit", "rollbackPayment"} =>
          paymentCalls[p] = 1 /\ txState[p] = "open" /\ BatchMarked(p)
     /\ (\E b \in txBookings[p] : b.payment_status = "success") =>
          pc[p] = "commit" /\ \A b \in txBookings[p] : b.payment_status = "success"
     /\ pc[p] = "done" =>
          ( paymentCalls[p] = 1
              <=> (result[p] # <<>> \/ error[p].kind = "Payment processing failed") )
     /\ pc[p] = "done" =>
          ( paymentCalls[p] = 0
              <=> error[p].kind \in {"Insufficient tickets", "already booked"} )

\* the invocation itself: inside the open transaction, with the batch complete and
\* all its rows pending, and before the COMMIT or ROLLBACK
C13_Step ==
  \A p \in Procs :
     paymentCalls'[p] > paymentCalls[p] =>
       /\ paymentCalls[p] = 0 /\ paymentCalls'[p] = 1
       /\ txState[p] = "open" /\ txState'[p] = "open"
       /\ BatchMarked(p)'
       /\ \A b \in txBookings'[p] : b.payment_status = "pending"
       /\ bookings' = bookings /\ available' = available
       /\ pc'[p] \in {"updateStatus", "rollbackPayment"}

\* C13, amended: an attempt invokes the payment step at most once: exactly once if
\* it has claimed all `quantity` tickets, given each a pending booking and marked
\* it unavailable, and not at all if it fails before (insufficient tickets, unique
\* violation).  The invocation comes after the whole batch is claimed and marked and
\* before the COMMIT or ROLLBACK, and no row is confirmed before the batch is marked
C13_PaymentOnceAfterMarking == []C13_State /\ [][C13_Step]_vars

\* a call has invoked the payment step, which failed, with its batch claimed, booked
\* as pending and marked unavailable, and its transaction still open
C13_Witness ==
  \E p \in Procs :
     /\ pc[p] = "rollbackPayment"
     /\ paymentCalls[p] = 1
     /\ BatchMarked(p)
     /\ txState[p] = "open"

\* the transaction of p ends in this step without a COMMIT
EndsWithoutCommit(p) == InFlight(p) /\ ~InFlight(p)' /\ ~Commits(p)

\* the committed tables hold no trace of an unfinished attempt: every booking is
\* confirmed and every unavailable ticket has its confirmed booking
C14_NoTrace ==
  /\ \A b \in bookings : b.payment_status = "success"
  /\ \A t \in DOMAIN available :
       ~available[t] => \E b \in bookings : b.ticket_id = t
  /\ \A p \in Procs :
       error[p].kind = "Connection terminated" =>
         /\ result[p] = <<>>
         /\ ~InFlight(p) /\ rowLocks[p] = {}
         /\ bookingReference[p] # NoReference => RowsOfReference(bookingReference[p]) = {}

\* the step in which an attempt stops before its COMMIT
C14_Step ==
  \A p \in Procs :
     EndsWithoutCommit(p) =>
       /\ (\E q \in Procs : Commits(q)) \/ (bookings' = bookings /\ available' = available)
       /\ \A b \in txBookings[p] : b \notin bookings'
       /\ \A t \in txUnavailable[p] : available'[t]
       /\ \A t \in rowLocks[p] :
            available'[t] /\ \A q \in Procs : t \notin rowLocks'[q]

\* C14 (SpecAbort): when an attempt stops before its COMMIT takes effect, on a
\* ROLLBACK, a lost connection or the death of the process, the committed tables
\* hold no booking of it and no ticket flipped by it, and the tickets it had
\* claimed are available and unclaimed, so that other attempts can claim them
C14_AbortLeavesNoTrace == []C14_NoTrace /\ [][C14_Step]_vars

\* a call lost its connection after it had claimed a ticket, and the other client
\* has claimed that very ticket since
C14_Witness ==
  \E p \in Procs : \E q \in Procs \ {p} :
     /\ error[p].kind = "Connection terminated"
     /\ pc[p] \in {"rollbackCatch", "release"}
     /\ tickets[p] # <<>>
     /\ Range(tickets[p]) \subseteq rowLocks[q]

\* the tickets of the tier of p, after the last row its scan examined, that are
\* available and not claimed by another attempt
FreeAhead(p) ==
  {u \in DOMAIN available :
     /\ u > cursor[p]
     /\ TierOf(u) = request[p].tier
     /\ available[u]
     /\ \A q \in Procs \ {p} : u \notin rowLocks[q]}

\* the selection so far: in id order, of the tier, no more than asked for, and the
\* scan can always take its next step
C15_State ==
  \A p \in Procs :
     /\ \A i \in 1..Len(tickets[p]) : \A j \in 1..Len(tickets[p]) :
          i < j => tickets[p][i] < tickets[p][j]
     /\ \A t \in Range(tickets[p]) : TierOf(t) = request[p].tier
     /\ Len(tickets[p]) <= request[p].quantity
     /\ pc[p] = "select" =>
          ENABLED (SelectLockRow(p) \/ SelectSkipLocked(p) \/ SelectReturn(p, nextRef))

\* the steps of the selection
C15_Step ==
  \A p \in Procs :
     /\ Len(tickets'[p]) > Len(tickets[p]) =>
          LET t == tickets'[p][Len(tickets'[p])] IN
            /\ tickets'[p] = Append(tickets[p], t)
            /\ t \in FreeAhead(p)
            /\ \A u \in FreeAhead(p) : t <= u
            /\ t \in rowLocks'[p]
     /\ (pc[p] = "select" /\ cursor'[p] > cursor[p] /\ tickets'[p] = tickets[p]) =>
          /\ \E q \in Procs \ {p} : cursor'[p] \in rowLocks[q]
          /\ \A u \in FreeAhead(p) : cursor'[p] < u
          /\ pc'[p] = "select"
     /\ (pc[p] = "select" /\ pc'[p] # "select") =>
          (Len(tickets[p]) = request[p].quantity \/ FreeAhead(p) = {})

\* C15: the selection never waits for a ticket claimed by another attempt: it
\* passes over it and takes the lowest ticket of the tier that is available and
\* unclaimed when it is examined, until it has `quantity` tickets or none is left
C15_SkipNeverWait == []C15_State /\ [][C15_Step]_vars

\* a call has passed over an available ticket claimed by the other client and has
\* taken a higher one
C15_Witness ==
  \E p \in Procs : \E q \in Procs \ {p} : \E t \in rowLocks[q] :
     /\ InFlight(p) /\ InFlight(q)
     /\ TierOf(t) = request[p].tier
     /\ available[t]
     /\ tickets[p] # <<>>
     /\ t < tickets[p][1]

\* attempt p waits for a resource attempt q holds: its INSERT waits on the unique
\* index for a row q has written and not yet committed (the locking reads never wait)
WaitsFor(p, q) ==
  /\ p # q
  /\ pc[p] = "insert"
  /\ LET row == NewBooking(p, CurrentTicket(p)) IN
       \E b \in txBookings[q] :
          b.ticket_id = row.ticket_id \/ b.booking_reference = row.booking_reference

\* no set of attempts in which every attempt waits for another of the set, and an
\* attempt that has ended has ended in exactly one way
C16_NoWaitCycle ==
  /\ \A W \in SUBSET Procs :
       W # {} => \E p \in W : \A q \in W : ~WaitsFor(p, q)
  /\ \A p \in Procs :
       /\ pc[p] = "insert" => ENABLED InsertBooking(p)
       /\ pc[p] \in {"release", "done"} => ((result[p] # <<>>) # (error[p] # NoError))
       /\ pc[p] \in {"release", "done"} => ~InFlight(p)

\* every attempt that has started reaches the end of its transaction
C16_Ends == \A p \in Procs : (pc[p] = "setIsolation") ~> (pc[p] = "release")

\* C16 (SpecFair): no set of in-flight attempts wait for one another, and under
\* fair scheduling every attempt that has started ends, either with its COMMIT and
\* a batch or with a ROLLBACK and an error, whatever else is in flight
C16_NoDeadlockAndEnds == []C16_NoWaitCycle /\ C16_Ends

\* both clients are inside their insert loops at once, for the same tier, each
\* holding claims
C16_Witness ==
  \A p \in Procs :
     /\ pc[p] \in {"insert", "update"}
     /\ rowLocks[p] # {}
     /\ \A q \in Procs : request[q].tier = request[p].tier

\* a body the schema must refuse
BadBody(b) ==
  \/ b.tier \notin {"VIP", "Front Row", "GA"}
  \/ b.fraction # 0
  \/ b.quantity < 1
  \/ b.quantity > 100
  \/ b.userId = ""

\* nothing of a refused body reaches createBooking, and every call has a good request
C17_State ==
  \A p \in Procs :
     /\ (body[p] # NoBody /\ BadBody(body[p])) =>
          /\ pc[p] = "responded" /\ response[p] = 400
          /\ request[p] = NoRequest
          /\ txState[p] = "none" /\ rowLocks[p] = {} /\ tickets[p] = <<>>
          /\ txBookings[p] = {} /\ txUnavailable[p] = {}
          /\ bookingReference[p] = NoReference /\ paymentCalls[p] = 0
          /\ result[p] = <<>> /\ error[p] = NoError
     /\ response[p] = 400 => BadBody(body[p])
     /\ request[p] # NoRequest =>
          /\ request[p].tier \in {"VIP", "Front Row", "GA"}
          /\ request[p].quantity \in 1..100
          /\ request[p].userId # ""
          /\ request[p] = [tier |-> body[p].tier, quantity |-> body[p].quantity,
                            userId |-> body[p].userId]

\* the step that receives a refused body answers it and touches nothing else
C17_Step ==
  \A p \in Procs :
     (body'[p] # body[p] /\ BadBody(body'[p])) =>
       /\ pc[p] = "idle" /\ pc'[p] = "responded" /\ response'[p] = 400
       /\ UNCHANGED <<available, bookings, txState, rowLocks, txBookings,
                      txUnavailable, tickets, request, nextRef>>

\* C17 (SpecRoute): a body whose tier is not VIP, Front Row or GA, whose quantity
\* is not an integer from 1 to 100, or whose userId is empty is answered 400 before
\* createBooking is called: no connection, no claim, inventory and bookings unchanged
C17_BadRequestRejected == []C17_State /\ [][C17_Step]_vars

\* a body asking for 101 tickets was answered 400 while the other client's call
\* holds its claims
C17_Witness ==
  \E p \in Procs : \E q \in Procs \ {p} :
     /\ pc[p] = "responded" /\ response[p] = 400
     /\ body[p].quantity = MaxPerRequest + 1
     /\ rowLocks[q] # {}

\* C18 (SpecRoute): every outcome gets exactly one status: 201 for a batch, 409 for
\* insufficient tickets and for the conflict, 402 for the payment failure, 400 for a
\* refused body, 500 for any other error
C18_OutcomeToStatus ==
  \A p \in Procs :
     /\ pc[p] # "responded" => response[p] = NoResponse
     /\ pc[p] = "responded" =>
          /\ response[p] \in {201, 400, 402, 409, 500}
          /\ response[p] = 201 <=> (result[p] # <<>> /\ error[p] = NoError)
          /\ response[p] = 409 <=>
                error[p].kind \in {"Insufficient tickets", "already booked"}
          /\ response[p] = 402 <=> error[p].kind = "Payment processing failed"
          /\ response[p] = 400 <=> request[p] = NoRequest
          /\ response[p] = 500 <=>
                ( /\ request[p] # NoRequest
                  /\ result[p] = <<>>
                  /\ error[p].kind \notin {"Insufficient tickets", "already booked",
                                            "Payment processing failed"} )

\* one client was answered 402 and the other 500
C18_Witness ==
  \E p \in Procs : \E q \in Procs \ {p} :
     /\ pc[p] = "responded" /\ response[p] = 402
     /\ pc[q] = "responded" /\ response[q] = 500

\* the tickets of each tier after the first run of migrate
C19_Loaded ==
  migrateLog # "none" =>
    /\ CountTotal(DOMAIN available, "VIP") = VipCount
    /\ CountTotal(DOMAIN available, "Front Row") = FrontRowCount
    /\ CountTotal(DOMAIN available, "GA") = GaCount

\* no step inserts or removes a ticket once tickets exist, and a run of migrate on
\* a store with tickets changes no ticket and no booking
C19_Step ==
  /\ DOMAIN available # {} => DOMAIN available' = DOMAIN available
  /\ (migrateLog' # migrateLog /\ DOMAIN available # {}) =>
       /\ available' = available
       /\ bookings' = bookings
       /\ UNCHANGED <<txBookings, txUnavailable, rowLocks, pc>>

\* C19 (SpecMigrate): a run of migrate on a store that holds tickets inserts no
\* ticket and changes no ticket and no booking, so after any number of runs, with
\* bookings in between, each tier has the tickets it had after the first run
C19_MigrateIdempotent == []C19_Loaded /\ [][C19_Step]_vars

\* migrate has run again and skipped the insertion, after a booking was committed
\* and while a call holds a claim
C19_Witness ==
  /\ migrateLog = "skipped"
  /\ bookings # {}
  /\ \E p \in Procs : rowLocks[p] # {}
  /\ \E t \in DOMAIN available : ~available[t]

\* C20: the transaction in which a call selects, inserts, updates and commits runs
\* at the SERIALIZABLE level that line 77 asks for
C20_Serializable ==
  \A p \in Procs :
     (InFlight(p) /\ pc[p] \in InTransaction) => isolation[p] = "serializable"

\* the call of p takes a step
Steps(p) ==
  pc'[p] # pc[p] \/ tickets'[p] # tickets[p] \/ cursor'[p] # cursor[p]

\* what the database holds for a tier: its ticket rows, its bookings, committed and
\* uncommitted, and the locks on its rows
TierPart(tier) ==
  [available |-> {t \in TicketsOfTier(tier) : available[t]},
   bookings |-> {b \in bookings : TierOf(b.ticket_id) = tier},
   written |-> {b \in UNION {txBookings[q] : q \in Procs} : TierOf(b.ticket_id) = tier},
   updated |-> {t \in UNION {txUnavailable[q] : q \in Procs} : TierOf(t) = tier},
   locked |-> {t \in UNION {rowLocks[q] : q \in Procs} : TierOf(t) = tier}]

\* everything a call holds is of its tier, and what stops or fails its INSERT is a
\* row of its tier
C21_State ==
  \A p \in Procs :
     /\ \A t \in Range(tickets[p]) \cup rowLocks[p] \cup txUnavailable[p] :
          TierOf(t) = request[p].tier
     /\ \A b \in txBookings[p] \cup Batch(p) : TierOf(b.ticket_id) = request[p].tier
     /\ pc[p] = "insert" =>
          LET row == NewBooking(p, CurrentTicket(p)) IN
            \A q \in Procs : \A b \in bookings \cup txBookings[q] :
               (b.ticket_id = row.ticket_id \/ b.booking_reference = row.booking_reference)
                 => TierOf(b.ticket_id) = request[p].tier

\* the part of a tier changes only in steps of a call for that tier
C21_Step ==
  \A tier \in Tiers :
     TierPart(tier)' # TierPart(tier) =>
       \E p \in Procs : Steps(p) /\ request[p].tier = tier

\* C21: a call for a tier never changes the flag of, nor books, a ticket of another
\* tier; everything it reads and writes is of its tier, so calls for other tiers,
\* in flight or committed, do not change its outcome
C21_TiersIndependent == []C21_State /\ [][C21_Step]_vars

\* two calls for different tiers are both about to commit
C21_Witness ==
  \E p \in Procs : \E q \in Procs \ {p} :
     /\ pc[p] = "commit" /\ pc[q] = "commit"
     /\ request[p].tier # request[q].tier

\* ---- C22 ----
\* a step of a read entry point: the only steps that change what a read returned
ReadStep == lastRead' # lastRead

\* the read changes no ticket, no booking, no row lock and nothing of any booking
\* call: its position, its selection, its uncommitted writes, its outcome
C22_ReadStep ==
  ReadStep => UNCHANGED <<available, bookings, pc, request, txState, rowLocks, cursor,
                          tickets, bookingReference, txBookings, txUnavailable,
                          localBookings, paymentCalls, result, error, nextRef,
                          isolation, response, migrateLog, body, migration, released>>

\* both reads can run in every state, whatever the booking calls hold
C22_NeverBlocked == ENABLED GetTicketAvailability /\ ENABLED GetAllAvailableTickets

\* a unit is skipped only for the row lock of a booking transaction, and an insert
\* waits only for the uncommitted row of a booking transaction
C22_OnlyBookingsInterfere ==
  \A p \in Procs :
     /\ ENABLED SelectSkipLocked(p) =>
          \E q \in Procs \ {p} : InFlight(q) /\ Min(Candidates(p)) \in rowLocks[q]
     /\ (pc[p] = "insert" /\ ~ENABLED InsertBooking(p)) =>
          \E q \in Procs \ {p} : InFlight(q) /\ WaitsFor(p, q)

\* C22: getTicketAvailability and getAllAvailableTickets leave every ticket and
\* every booking unchanged, take no claim on any unit, are never blocked by an
\* in-flight createBooking, and never make a createBooking skip, wait or fail
C22_ReadsAreInert ==
  /\ [](C22_NeverBlocked /\ C22_OnlyBookingsInterfere)
  /\ [][C22_ReadStep]_vars

\* both reads have returned while a booking transaction holds row locks and
\* uncommitted writes
C22_Witness ==
  /\ lastRead.call = "getAllAvailableTickets"
  /\ Len(lastRead.catalog) > 0
  /\ \E p \in Procs : rowLocks[p] # {} /\ txUnavailable[p] # {} /\ pc[p] = "commit"
  /\ \E q \in Procs : pc[q] = "select" /\ cursor[q] > 0

\* ---- C23 ----
\* the step in which the call of p fails for insufficient tickets
InsufficientStep(p) ==
  /\ pc[p] = "select"
  /\ pc'[p] = "rollbackInsufficient"

\* no other client has called for the tier of p (a client calls once in SpecRead)
NoCompetitor(p) ==
  \A q \in Procs \ {p} : pc[q] = "idle" \/ request[q].tier # request[p].tier

BookingsOfTicket(t) == {b \in bookings : b.ticket_id = t}
BookingsOfTier(tier) == {b \in bookings : TierOf(b.ticket_id) = tier}

\* C24: in every committed state every booking row has payment_status 'success',
\* every booked ticket has available = false, every ticket with available = false
\* is referenced by exactly one booking, and for each tier the available tickets
\* plus the bookings of the tier make up the total of the tier
C24_CommittedConsistent ==
  /\ \A b \in bookings :
       /\ b.payment_status = "success"
       /\ b.ticket_id \in DOMAIN available
       /\ ~available[b.ticket_id]
  /\ \A t \in DOMAIN available :
       ~available[t] => Cardinality(BookingsOfTicket(t)) = 1
  /\ \A tier \in Tiers :
       Cardinality(AvailableOfTier(tier)) + Cardinality(BookingsOfTier(tier))
         = Cardinality(TicketsOfTier(tier))

\* a GA ticket is committed as booked while a transaction holds an uncommitted
\* pending booking of another, already marked unavailable by it
C24_Witness ==
  /\ Cardinality(BookingsOfTier("GA")) = 1
  /\ \E p \in Procs :
       /\ pc[p] = "updateStatus"
       /\ request[p].tier = "GA"
       /\ \E b \in txBookings[p] : b.payment_status = "pending"
       /\ txUnavailable[p] # {}

\* ---- C25 ----
\* the n lowest ids of A
LowestOf(A, n) == {t \in A : Cardinality({u \in A : u < t}) < n}

\* with one call at a time the scan never meets a row locked by another transaction
C25_NeverSkips ==
  \A p \in Procs :
     /\ ~ENABLED SelectSkipLocked(p)
     /\ pc[p] # "idle" => \A q \in Procs \ {p} : pc[q] = "idle"

\* the flags a call finds at its start are the flags at its COMMIT, and the batch
\* it returns and the tickets it marks are the `quantity` lowest of the tier among
\* those with available = true
C25_Step ==
  /\ (\A p \in Procs : ~Commits(p)) => available' = available
  /\ \A p \in Procs :
       Commits(p) =>
         LET lowest == LowestOf(AvailableOfTier(request[p].tier), request[p].quantity)
         IN /\ Len(result'[p]) = request[p].quantity
            /\ {b.ticket_id : b \in Range(result'[p])} = lowest
            /\ {t \in DOMAIN available : available[t] /\ ~available'[t]} = lowest
            /\ {b.ticket_id : b \in bookings' \ bookings} = lowest

\* C25 (SpecSolo): when no other attempt is in flight, a confirmed createBooking
\* for quantity q of tier T allocates exactly the q lowest-id tickets of tier T
\* that had available = true when the attempt started
C25_LowestAllocated == []C25_NeverSkips /\ [][C25_Step]_vars

\* a call was confirmed on the second GA ticket, the first being booked already
C25_Witness ==
  \E p \in Procs :
     /\ pc[p] = "release"
     /\ result[p] # <<>>
     /\ result[p][1].ticket_id = VipCount + FrontRowCount + 2
     /\ ~available[VipCount + FrontRowCount + 1]

\* ---- C26 ----
\* the booking rows created by transactions other than that of p: the committed
\* rows and the uncommitted rows of the other open transactions
RowsOfOthers(p) == bookings \cup UNION {txBookings[q] : q \in Procs \ {p}}

\* C26: a call fails with 'Ticket was already booked by another user' only when
\* another transaction has created a booking for one of the tickets the call
\* selected; the unique violation has no other cause
C26_ConflictOnlyFromOthers ==
  \A p \in Procs :
     pc[p] = "rollbackConflict" =>
       \E b \in RowsOfOthers(p) : b.ticket_id \in Range(tickets[p])

\* ---- C27 ----
\* a booking row is for one ticket at the price of that ticket
OneTicketRow(b) ==
  /\ b.quantity = 1
  /\ b.ticket_id \in DOMAIN available
  /\ b.total_price = PriceOf(TierOf(b.ticket_id))

\* a booking row is one of the request of p
RowOfRequest(p, b) ==
  /\ OneTicketRow(b)
  /\ b.user_id = request[p].userId
  /\ TierOf(b.ticket_id) = request[p].tier
  /\ b.total_price = PriceOf(request[p].tier)

\* the uncommitted rows of a call, the rows it hands back and the committed rows
C27_Rows ==
  /\ \A b \in bookings : OneTicketRow(b)
  /\ \A p \in Procs :
       /\ \A b \in txBookings[p] \cup Batch(p) : RowOfRequest(p, b)
       /\ \A i \in 1..Len(localBookings[p]) : RowOfRequest(p, localBookings[p][i])

\* the rows a COMMIT adds are rows of the request of the committing call
C27_Step ==
  \A b \in bookings' \ bookings : \E p \in Procs : Commits(p) /\ RowOfRequest(p, b)

\* C27: every booking row created by createBooking has quantity 1, as total_price
\* the price of its ticket, as user_id the userId of the request, and a ticket of
\* the requested tier
C27_RowFields == []C27_Rows /\ [][C27_Step]_vars

\* a VIP booking of one client is committed at 100 while the other client holds the
\* uncommitted row of a GA ticket of a request for two
C27_Witness ==
  \E p \in Procs : \E q \in Procs \ {p} :
     /\ \E b \in bookings : b.user_id = UserOf(p) /\ b.total_price = VipPrice
     /\ request[q].quantity = 2
     /\ \E b \in txBookings[q] : b.user_id = UserOf(q) /\ b.total_price = GaPrice

\* ---- C28 ----
\* the call of p ended, or is ending, with an error that is none of the typed failures
Untyped(p) == error[p].kind = "storage error"

\* the step in which a statement of the call of p fails with such an error
Fails(p) == ~Untyped(p) /\ error'[p].kind = "storage error"

\* how far a call has come: the selection lies before the insert loop, the loop
\* before the COMMIT and the ROLLBACKs, those before the catch and the release
Rank(at) ==
  CASE at = "idle" -> 0
    [] at = "setIsolation" -> 1
    [] at = "begin" -> 2
    [] at = "select" -> 3
    [] at \in {"insert", "update"} -> 4
    [] at = "updateStatus" -> 5
    [] at = "commit" -> 6
    [] at \in {"rollbackInsufficient", "rollbackConflict", "rollbackPayment"} -> 7
    [] at = "rollbackCatch" -> 8
    [] at = "release" -> 9
    [] OTHER -> 10

\* the call has passed its catch with the untyped error: the transaction is rolled
\* back, nothing of the call is in the committed tables, no batch is returned
C28_RolledBack ==
  \A p \in Procs :
     (Untyped(p) /\ pc[p] \in {"release", "done"}) =>
       /\ ~InFlight(p)
       /\ rowLocks[p] = {} /\ txBookings[p] = {} /\ txUnavailable[p] = {}
       /\ result[p] = <<>>
       /\ bookingReference[p] # NoReference =>
            RowsOfReference(bookingReference[p]) = {}

C28_Step ==
  \A p \in Procs :
     \* the failing statement and the ROLLBACK of the catch leave the committed
     \* tables as they are, and the failure leads to the catch
     /\ Fails(p) =>
          /\ bookings' = bookings /\ available' = available
          /\ pc'[p] = "rollbackCatch"
     /\ (pc[p] = "rollbackCatch" /\ pc'[p] # pc[p]) =>
          /\ bookings' = bookings /\ available' = available
          /\ pc'[p] = "release"
          /\ txState'[p] = "none" /\ rowLocks'[p] = {}
     \* the error thrown is the error caught; after it the call runs no statement
     \* again and commits nothing
     /\ Untyped(p) =>
          /\ error'[p] = error[p]
          /\ pc'[p] \in {"rollbackCatch", "release", "done"}
          /\ ~Commits(p)
          /\ \A b \in bookings' \ bookings : b.booking_reference # bookingReference[p]
     \* one selection and one COMMIT per call: a call never goes back
     /\ Rank(pc'[p]) >= Rank(pc[p])
     /\ (pc'[p] = "select" /\ pc[p] # "select") => pc[p] = "begin"
     /\ (pc'[p] = "commit" /\ pc[p] # "commit") => pc[p] = "updateStatus"
     /\ (tickets'[p] # tickets[p] /\ tickets'[p] # <<>>) => pc'[p] = "select"

\* C28 (SpecError): an error of the database that is none of the three typed
\* failures, raised by any statement of createBooking including the COMMIT, makes
\* the call roll back, leaves the committed tables unchanged and is thrown to the
\* caller as it was caught, with no retry; a call performs at most one selection
\* and at most one COMMIT
C28_StorageErrorRollsBack == []C28_RolledBack /\ [][C28_Step]_vars

\* a call whose COMMIT failed has ended with that error, and the tickets it had
\* booked and marked are available to the other call, which has claimed one
C28_Witness ==
  \E p \in Procs : \E q \in Procs \ {p} :
     /\ Untyped(p) /\ pc[p] = "done"
     /\ paymentCalls[p] = 1
     /\ bookingReference[p] # NoReference
     /\ rowLocks[q] # {}
     /\ request[q].tier = request[p].tier
     /\ \A t \in DOMAIN available : available[t]

\* ---- C29 ----
\* the place of a tier in the order of the tier names, as text
TierPlace(tier) ==
  CASE tier = "Front Row" -> 1
    [] tier = "GA" -> 2
    [] tier = "VIP" -> 3

\* row a comes before row b under ORDER BY tier, id
Before(a, b) ==
  \/ TierPlace(TierOf(a)) < TierPlace(TierOf(b))
  \/ TierOf(a) = TierOf(b) /\ a < b

\* the tickets a call selected and gave up by a ROLLBACK
RolledBackTickets ==
  UNION {Range(tickets[p]) : p \in {q \in Procs : pc[q] = "rollbackCatch"}}

\* c is the catalog of the committed tables
IsCatalog(c) ==
  /\ Range(c) = {t \in DOMAIN available : available[t]}
  /\ \A i \in 1..Len(c) : \A j \in 1..Len(c) : i < j => Before(c[i], c[j])
  /\ \A b \in bookings : b.ticket_id \notin Range(c)
  /\ \A t \in RolledBackTickets : t \in Range(c) \/ BookingsOfTicket(t) # {}

\* what getAllAvailableTickets returns in a state
C29_Catalog == IsCatalog(getAllAvailableTickets)

\* a call of getAllAvailableTickets returns the catalog of the state it runs in
C29_Step ==
  (ReadStep /\ lastRead'.call = "getAllAvailableTickets") =>
     /\ lastRead'.catalog = getAllAvailableTickets
     /\ IsCatalog(lastRead'.catalog)

\* C29 (SpecRead): getAllAvailableTickets returns exactly the tickets whose
\* committed available flag is true, each once, ordered by tier and then by id; a
\* ticket of a committed booking is not in it, a ticket of a rolled back attempt is
C29_CatalogIsCommittedAvailable == []C29_Catalog /\ [][C29_Step]_vars

\* the catalog was read after one ticket was committed as booked and while a call
\* that rolled back still holds its selection: it has the rolled back ticket and
\* all others but the booked one, with the VIP ticket, of the lowest id, last
C29_Witness ==
  /\ lastRead.call = "getAllAvailableTickets"
  /\ lastRead.catalog = getAllAvailableTickets
  /\ Len(lastRead.catalog) = NumTickets - 1
  /\ lastRead.catalog[Len(lastRead.catalog)] = 1
  /\ bookings # {}
  /\ \E t \in RolledBackTickets : \E k \in 1..Len(lastRead.catalog) : lastRead.catalog[k] = t

\* ---- C30 ----
\* the rows of the tickets table of a tier
RowsOf(tier) == {i \in 1..Len(migration.table) : migration.table[i].tier = tier}

\* the inventory after a successful run on the empty store
C30_Inventory ==
  Len(migration.table) # 0 =>
    /\ Cardinality(RowsOf("VIP")) = 100
    /\ Cardinality(RowsOf("Front Row")) = 200
    /\ Cardinality(RowsOf("GA")) = 1000
    /\ Len(migration.table) = 1300
    /\ \A i \in 1..Len(migration.table) :
         LET row == migration.table[i] IN
           /\ row.available
           /\ row.tier = "VIP" => row.price = 100
           /\ row.tier = "Front Row" => row.price = 50
           /\ row.tier = "GA" => row.price = 10
    /\ Cardinality({migration.table[i].id : i \in 1..Len(migration.table)}) = 1300

\* the table changes only in the COMMIT of a run that inserted every ticket, and a
\* run that failed leaves the table as it was and no row of its transaction
C30_Step ==
  /\ migration'.table # migration.table =>
       /\ migration.pc = "commit" /\ migration'.outcome = "ok"
       /\ migration.inserted = AllTicketsLength
       /\ migration.table = <<>>
  /\ migration'.outcome = "failed" =>
       /\ migration'.table = migration.table
       /\ migration'.inserted = 0

\* C30 (SpecLoad): after a successful migrate on an empty store the tickets are
\* exactly 100 VIP at 100, 200 Front Row at 50 and 1000 GA at 10, all available,
\* with pairwise distinct ids; a migrate that fails at any step leaves no ticket
C30_BulkLoad ==
  /\ [](C30_Inventory /\ (migration.outcome = "failed" => migration.table = <<>>))
  /\ [][C30_Step]_vars

\* a run failed after some INSERTs and left the table empty, and the next run
\* loaded the inventory, with ids that start after those the failed run used
C30_Witness ==
  /\ migration.outcome = "ok"
  /\ Len(migration.table) = AllTicketsLength
  /\ migration.table[1].id > 1

\* ---- C31 ----
\* the ways a call ends
ExitPaths ==
  {"none", "Insufficient tickets", "already booked", "Payment processing failed",
   "storage error"}

\* the connection of p has no transaction: none open, none aborted, no lock, no
\* uncommitted write
NoTransaction(p) ==
  /\ txState[p] = "none"
  /\ rowLocks[p] = {}
  /\ txBookings[p] = {}
  /\ txUnavailable[p] = {}

\* a call that has ended released its connection once, a call under way has not
\* released it yet
C31_Count ==
  \A p \in Procs :
     /\ pc[p] = "done" => (released[p] = 1 /\ NoTransaction(p) /\ error[p].kind \in ExitPaths)
     /\ pc[p] # "done" => released[p] = 0

\* client.release() is called in the finally only, with no transaction on the
\* connection, and no call ends without it
C31_Step ==
  \A p \in Procs :
     /\ released'[p] # released[p] =>
          /\ released'[p] = released[p] + 1
          /\ pc[p] = "release" /\ pc'[p] = "done"
          /\ NoTransaction(p)
     /\ (pc'[p] = "done" /\ pc[p] # "done") => released'[p] = released[p] + 1

\* C31 (SpecError): a createBooking call that obtained a pooled connection releases
\* it exactly once on every exit path (success, insufficient tickets, conflict,
\* payment failure, storage error), and the connection has no open transaction
\* when it is released
C31_ReleasedOnce == []C31_Count /\ [][C31_Step]_vars

\* one call ended with a storage error raised after it had claimed and booked a
\* ticket, the other was confirmed; both released their connection
C31_Witness ==
  \E p \in Procs : \E q \in Procs \ {p} :
     /\ pc[p] = "done" /\ error[p].kind = "storage error"
     /\ bookingReference[p] # NoReference
     /\ pc[q] = "done" /\ result[q] # <<>>
     /\ released[p] = 1 /\ released[q] = 1

\* ---- C32 ----
\* the unavailable tickets of the tier are its k lowest ids, for some k
LowestTaken(tier) ==
  \A t \in TicketsOfTier(tier) : \A u \in TicketsOfTier(tier) :
     (~available[t] /\ u < t) => ~available[u]

AllConfirmed(tier) ==
  \A p \in Procs :
     request[p].tier = tier => (pc[p] = "done" /\ error[p] = NoError /\ result[p] # <<>>)

====
